---- MODULE Spec2Model ----
(***************************************************************************)
(* Model of the URL list of link-to-code-mobile: the store kept by         *)
(* QRCodeApp (addUrl, updateUrl, deleteUrl, setActiveUrl), the management  *)
(* form of UrlManagement (normalizeUrl, handleSubmit, handleEdit,          *)
(* handleCancel, handleDelete) and the carousel navigation of              *)
(* QRCodeGenerator (navigateNext, navigatePrevious, navigateToIndex, and   *)
(* the swipe handlers handleTouchStart, handleTouchMove, handleTouchEnd).   *)
(*                                                                         *)
(* Strings are sequences of one-character strings, so that trim() and      *)
(* startsWith() are computed as the code computes them.  Array indices of  *)
(* the navigator are 0-based as in the source; u[i + 1] is the element at  *)
(* the source's index i.                                                   *)
(***************************************************************************)
EXTENDS Integers, Sequences, FiniteSets, TLC

VARIABLES
    urls,       \* QRCodeApp: the saved collection (useLocalStorage state)
    clock,      \* Date.now() as read by the most recent addUrl
    isAdding,   \* UrlManagement: the add form is open
    editingId,  \* UrlManagement: id being edited, Null when none
    formData,   \* UrlManagement: the form's fields {url, title}
    lastOp,     \* history: the handler that ran last and its arguments
    before,     \* history: the value of the collection when that handler started
    snapshot,   \* the array the handler received (prev), as a holder of it reads it afterwards
    nTrace,     \* normalizeUrl applied repeatedly: <<u, n(u), n(n(u))>>
    touchStart, \* QRCodeGenerator: clientX of the last touchstart, <<>> for null
    touchEnd,   \* QRCodeGenerator: clientX of the last touchmove, <<>> for null
    gesture,    \* the finger: whether it is down, where it went down, where it is,
                \* whether it has moved, and what the gesture before this one called
    called,     \* history: the navigation function the last handleTouchEnd called
    navRun      \* history: the run of next() or of previous() calls that ends here

vars == <<urls, clock, isAdding, editingId, formData, lastOp, before, snapshot, nTrace,
          touchStart, touchEnd, gesture, called, navRun>>

storeVars == <<urls, clock>>
formVars == <<isAdding, editingId, formData>>
touchVars == <<touchStart, touchEnd, gesture, called>>

----------------------------------------------------------------------------
(* Bounds *)

\* addUrl runs at most MaxAdds times, so the collection holds at most MaxAdds records
MaxAdds == 3

----------------------------------------------------------------------------
(* Strings *)

Whitespace == {" ", "\t"}

HTTP == <<"h", "t", "t", "p", ":", "/", "/">>
HTTPS == <<"h", "t", "t", "p", "s", ":", "/", "/">>

RECURSIVE trimStart(_)
trimStart(s) ==
    IF s # <<>> /\ Head(s) \in Whitespace THEN trimStart(Tail(s)) ELSE s

RECURSIVE trimEnd(_)
trimEnd(s) ==
    IF s # <<>> /\ s[Len(s)] \in Whitespace
    THEN trimEnd(SubSeq(s, 1, Len(s) - 1))
    ELSE s

\* String.prototype.trim
trim(s) == trimEnd(trimStart(s))

\* String.prototype.startsWith
startsWith(s, p) == Len(s) >= Len(p) /\ SubSeq(s, 1, Len(p)) = p

\* Mutant of normalizeUrl: the input is not trimmed
normalizeUrlNoTrim(url) ==
    IF startsWith(url, HTTP) \/ startsWith(url, HTTPS)
    THEN url
    ELSE HTTPS \o url

normalizeUrl(url) ==
    LET trimmed == trim(url)
    IN  IF startsWith(trimmed, HTTP) \/ startsWith(trimmed, HTTPS)
        THEN trimmed
        ELSE HTTPS \o trimmed

----------------------------------------------------------------------------
(* The store: QRCodeApp *)

\* editingId's null; also the id field of lastOp when the handler takes no id and
\* hands none to the store
Null == <<>>

\* Mutant of generateId: the id does not depend on the clock
generateIdConstant(now) == <<0>>

\* Date.now().toString(36) + random suffix: a string that differs for different
\* readings of the clock; the clock advances between two add events
generateId(now) == <<now>>

\* Array.prototype.findIndex with the predicate url.id === id: 0-based, -1 when absent
findIndex(u, id) ==
    IF \E i \in 1..Len(u) : u[i].id = id
    THEN (CHOOSE i \in 1..Len(u) :
            u[i].id = id /\ \A j \in 1..(i - 1) : u[j].id # id) - 1
    ELSE -1

\* urls.find(url => url.isActive) || null, as a sequence of at most one record
activeUrl(u) ==
    IF \E i \in 1..Len(u) : u[i].isActive
    THEN <<u[CHOOSE i \in 1..Len(u) :
                u[i].isActive /\ \A j \in 1..(i - 1) : ~u[j].isActive]>>
    ELSE <<>>

\* Mutant of addUrl: the new record is put in front
addUrlPrepends(u, urlData, now) ==
    <<[id |-> generateId(now), url |-> urlData.url, title |-> urlData.title,
       createdAt |-> now, isActive |-> (Len(u) = 0)]>> \o u

\* Mutant of addUrl: every new record is created active
addUrlAlwaysActive(u, urlData, now) ==
    Append(u, [id |-> generateId(now), url |-> urlData.url, title |-> urlData.title,
               createdAt |-> now, isActive |-> TRUE])

addUrl(u, urlData, now) ==
    LET newUrl == [id |-> generateId(now),
                   url |-> urlData.url,
                   title |-> urlData.title,
                   createdAt |-> now,
                   isActive |-> (Len(u) = 0)]
    IN  Append(u, newUrl)

\* Mutant of updateUrl: the updated record loses its active flag
updateUrlDeactivates(prev, id, urlData) ==
    [i \in 1..Len(prev) |->
        IF prev[i].id = id
        THEN [prev[i] EXCEPT !.url = urlData.url, !.title = urlData.title,
                             !.isActive = FALSE]
        ELSE prev[i]]

updateUrl(prev, id, urlData) ==
    [i \in 1..Len(prev) |->
        IF prev[i].id = id
        THEN [prev[i] EXCEPT !.url = urlData.url, !.title = urlData.title]
        ELSE prev[i]]

\* Mutant of wasActive: a record that is not found counts as active
wasActiveOrAbsent(prev, id) ==
    \/ findIndex(prev, id) = -1
    \/ prev[findIndex(prev, id) + 1].isActive

\* prev.find(url => url.id === id)?.isActive, undefined read as false
wasActive(prev, id) ==
    /\ findIndex(prev, id) # -1
    /\ prev[findIndex(prev, id) + 1].isActive

\* Mutant of deleteUrl: the first remaining record is made active after every delete
deleteUrlAlwaysReassigns(prev, id) ==
    LET remaining == SelectSeq(prev, LAMBDA url : url.id # id)
    IN  IF Len(remaining) > 0
        THEN [i \in 1..Len(remaining) |-> [remaining[i] EXCEPT !.isActive = (i = 1)]]
        ELSE remaining

\* Mutant of deleteUrl: the last remaining record is made active
deleteUrlActivatesLast(prev, id) ==
    LET remaining == SelectSeq(prev, LAMBDA url : url.id # id)
    IN  IF wasActive(prev, id) /\ Len(remaining) > 0
        THEN [remaining EXCEPT ![Len(remaining)].isActive = TRUE]
        ELSE remaining

deleteUrl(prev, id) ==
    LET remaining == SelectSeq(prev, LAMBDA url : url.id # id)
    IN  IF wasActive(prev, id) /\ Len(remaining) > 0
        THEN [remaining EXCEPT ![1].isActive = TRUE]
        ELSE remaining

\* What a holder of prev reads after deleteUrl(prev, id): filter() copies the array
\* and not the records, so remaining[0] is a record of prev and the assignment to
\* its isActive is visible through prev
deleteUrlPrev(prev, id) ==
    LET remaining == SelectSeq(prev, LAMBDA url : url.id # id)
    IN  IF wasActive(prev, id) /\ Len(remaining) > 0
        THEN [i \in 1..Len(prev) |->
                IF prev[i].id # id /\ \A j \in 1..(i - 1) : prev[j].id = id
                THEN [prev[i] EXCEPT !.isActive = TRUE]
                ELSE prev[i]]
        ELSE prev

\* Mutant of setActiveUrl: the flag of the record is flipped
setActiveUrlToggles(prev, id) ==
    [i \in 1..Len(prev) |->
        [prev[i] EXCEPT !.isActive = (prev[i].id = id /\ ~prev[i].isActive)]]

\* Mutant of setActiveUrl: the other records keep their flag
setActiveUrlKeepsOthers(prev, id) ==
    [i \in 1..Len(prev) |->
        IF prev[i].id = id THEN [prev[i] EXCEPT !.isActive = TRUE] ELSE prev[i]]

\* Mutant of setActiveUrl: the activated record is moved to the front
setActiveUrlMovesFirst(prev, id) ==
    [i \in 1..Len(SelectSeq(prev, LAMBDA url : url.id = id)) |->
        [SelectSeq(prev, LAMBDA url : url.id = id)[i] EXCEPT !.isActive = TRUE]]
      \o [i \in 1..Len(SelectSeq(prev, LAMBDA url : url.id # id)) |->
        [SelectSeq(prev, LAMBDA url : url.id # id)[i] EXCEPT !.isActive = FALSE]]

setActiveUrl(prev, id) ==
    [i \in 1..Len(prev) |-> [prev[i] EXCEPT !.isActive = (prev[i].id = id)]]

----------------------------------------------------------------------------
(* The carousel: QRCodeGenerator *)

\* activeUrl ? urls.findIndex(url => url.id === activeUrl.id) : -1
currentIndex(u) ==
    IF activeUrl(u) = <<>> THEN -1 ELSE findIndex(u, activeUrl(u)[1].id)

\* Mutant of hasMultipleUrls: a single record counts as multiple
hasMultipleUrlsFromOne(u) == Len(u) >= 1

hasMultipleUrls(u) == Len(u) >= 2

\* Mutant of navigateNext: no wraparound, the last index stays
navigateNextNoWrap(u) ==
    IF ~hasMultipleUrls(u) \/ currentIndex(u) = -1
    THEN u
    ELSE LET nextIndex == IF currentIndex(u) + 1 < Len(u)
                          THEN currentIndex(u) + 1
                          ELSE currentIndex(u)
         IN  setActiveUrl(u, u[nextIndex + 1].id)

\* The collection after navigateNext: onSetActiveUrl is the store's setActiveUrl
navigateNext(u) ==
    IF ~hasMultipleUrls(u) \/ currentIndex(u) = -1
    THEN u
    ELSE LET nextIndex == (currentIndex(u) + 1) % Len(u)
         IN  setActiveUrl(u, u[nextIndex + 1].id)

\* Mutant of navigatePrevious: no wraparound, the first index stays
navigatePreviousNoWrap(u) ==
    IF ~hasMultipleUrls(u) \/ currentIndex(u) = -1
    THEN u
    ELSE LET prevIndex == IF currentIndex(u) = 0 THEN 0 ELSE currentIndex(u) - 1
         IN  setActiveUrl(u, u[prevIndex + 1].id)

\* The collection after navigatePrevious
navigatePrevious(u) ==
    IF ~hasMultipleUrls(u) \/ currentIndex(u) = -1
    THEN u
    ELSE LET prevIndex == IF currentIndex(u) = 0
                          THEN Len(u) - 1
                          ELSE currentIndex(u) - 1
         IN  setActiveUrl(u, u[prevIndex + 1].id)

\* Mutant of navigateToIndex: an index out of range is clamped into the range
navigateToIndexClamps(u, index) ==
    IF Len(u) = 0
    THEN u
    ELSE LET clamped == IF index < 0 THEN 0
                        ELSE IF index >= Len(u) THEN Len(u) - 1 ELSE index
         IN  setActiveUrl(u, u[clamped + 1].id)

\* The collection after navigateToIndex(index)
navigateToIndex(u, index) ==
    IF index >= 0 /\ index < Len(u)
    THEN setActiveUrl(u, u[index + 1].id)
    ELSE u

\* The id navigateNext hands to onSetActiveUrl, Null when it returns before
navigateNextTarget(u) ==
    IF ~hasMultipleUrls(u) \/ currentIndex(u) = -1
    THEN Null
    ELSE u[((currentIndex(u) + 1) % Len(u)) + 1].id

\* The id navigatePrevious hands to onSetActiveUrl, Null when it returns before
navigatePreviousTarget(u) ==
    IF ~hasMultipleUrls(u) \/ currentIndex(u) = -1
    THEN Null
    ELSE u[(IF currentIndex(u) = 0 THEN Len(u) - 1 ELSE currentIndex(u) - 1) + 1].id

\* The id navigateToIndex(index) hands to onSetActiveUrl, Null when it calls nothing
navigateToIndexTarget(u, index) ==
    IF index >= 0 /\ index < Len(u) THEN u[index + 1].id ELSE Null

----------------------------------------------------------------------------
(* Inputs *)

\* What a user types into the url field: blank, a bare host, a url with a scheme
UrlInputs == {<<" ">>, <<"a">>, HTTP \o <<"a", " ">>}

\* What a user types into the title field: blank, a title
TitleInputs == {<<" ">>, <<"T">>}

\* The urlData handed to the store's operations, which store it as it comes:
\* two urls and two titles, one of them blank
StoreInputs ==
    {[url |-> <<"a">>, title |-> <<"T">>],
     [url |-> <<"a">>, title |-> <<" ">>],
     [url |-> HTTP \o <<"a", " ">>, title |-> <<" ">>]}

\* setFormData({ url: '', title: '' })
EmptyForm == [url |-> <<>>, title |-> <<>>]

\* Ids handed to the store's operations: every id addUrl can create, and one it cannot
IdArgs == {generateId(n) : n \in 1..(MaxAdds + 1)}

\* Inputs of normalizeUrl: whitespace, a scheme or something close to one, a body
NormInputs ==
    {lead \o scheme \o body \o trail :
        lead \in {<<>>, <<" ">>, <<"\t", " ">>},
        scheme \in {<<>>, HTTP, HTTPS, <<"h", "t", "t", "p", ":">>,
                    <<"H", "T", "T", "P", ":", "/", "/">>},
        body \in {<<>>, <<"a">>, <<"a", " ", "b">>},
        trail \in {<<>>, <<" ">>, <<"\t">>}}

\* normalizeUrl is applied MaxNormalize times in a row to each input
MaxNormalize == 2

----------------------------------------------------------------------------
(* Initial state *)

\* No run of next() or previous() calls ends here
NoRun == [dir |-> "none", from |-> Null, ids |-> <<>>]

\* The id of the active record of u, Null when there is none
activeId(u) == IF activeUrl(u) = <<>> THEN Null ELSE activeUrl(u)[1].id

\* The run after a next() or previous() (dir) that took the collection from u to
\* uAfter and handed target to onSetActiveUrl: the ids the calls of the run have
\* made active, and the id that was active when the run began.  A call that
\* hands nothing on ends the run; a run that has gone once around begins anew
navRunAfter(run, dir, u, uAfter, target) ==
    IF target = Null
    THEN NoRun
    ELSE IF run.dir = dir /\ Len(run.ids) < Len(u)
         THEN [run EXCEPT !.ids = Append(@, activeId(uAfter))]
         ELSE [dir |-> dir, from |-> activeId(u), ids |-> <<activeId(uAfter)>>]

\* No finger has touched the screen yet
NoGesture == [down |-> FALSE, start |-> 0, end |-> 0, moved |-> FALSE, prior |-> <<>>]

NoOp == [op |-> "init", id |-> Null, data |-> EmptyForm, index |-> 0]

Op(name, id, data, index) == [op |-> name, id |-> id, data |-> data, index |-> index]

Init ==
    /\ urls = <<>>
    /\ clock = 0
    /\ isAdding = FALSE
    /\ editingId = Null
    /\ formData = EmptyForm
    /\ lastOp = NoOp
    /\ before = <<>>
    /\ snapshot = <<>>
    /\ nTrace = <<>>
    /\ touchStart = <<>>
    /\ touchEnd = <<>>
    /\ gesture = NoGesture
    /\ called = <<>>
    /\ navRun = NoRun

----------------------------------------------------------------------------
(* The store's operations, called with any argument *)

AddUrl ==
    \E urlData \in StoreInputs :
        /\ clock < MaxAdds
        /\ clock' = clock + 1
        /\ urls' = addUrl(urls, urlData, clock + 1)
        /\ lastOp' = Op("addUrl", generateId(clock + 1), urlData, 0)
        /\ before' = urls
        /\ navRun' = NoRun
        /\ snapshot' = urls
        /\ UNCHANGED <<formVars, nTrace, touchVars>>

UpdateUrl ==
    \E id \in IdArgs, urlData \in StoreInputs :
        /\ urls' = updateUrl(urls, id, urlData)
        /\ lastOp' = Op("updateUrl", id, urlData, 0)
        /\ before' = urls
        /\ navRun' = NoRun
        /\ snapshot' = urls
        /\ UNCHANGED <<clock, formVars, nTrace, touchVars>>

DeleteUrl ==
    \E id \in IdArgs :
        /\ urls' = deleteUrl(urls, id)
        /\ lastOp' = Op("deleteUrl", id, EmptyForm, 0)
        /\ before' = urls
        /\ navRun' = NoRun
        /\ snapshot' = deleteUrlPrev(urls, id)
        /\ UNCHANGED <<clock, formVars, nTrace, touchVars>>

SetActiveUrl ==
    \E id \in IdArgs :
        /\ urls' = setActiveUrl(urls, id)
        /\ lastOp' = Op("setActiveUrl", id, EmptyForm, 0)
        /\ before' = urls
        /\ navRun' = NoRun
        /\ snapshot' = urls
        /\ UNCHANGED <<clock, formVars, nTrace, touchVars>>

----------------------------------------------------------------------------
(* The carousel's operations *)

NavigateNext ==
    /\ urls' = navigateNext(urls)
    /\ lastOp' = Op("navigateNext", navigateNextTarget(urls), EmptyForm, 0)
    /\ before' = urls
    /\ navRun' = navRunAfter(navRun, "next", urls, urls', navigateNextTarget(urls))
    /\ snapshot' = urls
    /\ UNCHANGED <<clock, formVars, nTrace, touchVars>>

NavigatePrevious ==
    /\ urls' = navigatePrevious(urls)
    /\ lastOp' = Op("navigatePrevious", navigatePreviousTarget(urls), EmptyForm, 0)
    /\ before' = urls
    /\ navRun' = navRunAfter(navRun, "previous", urls, urls', navigatePreviousTarget(urls))
    /\ snapshot' = urls
    /\ UNCHANGED <<clock, formVars, nTrace, touchVars>>

NavigateToIndex ==
    \E index \in -1..Len(urls) :
        /\ urls' = navigateToIndex(urls, index)
        /\ lastOp' = Op("navigateToIndex", navigateToIndexTarget(urls, index), EmptyForm, index)
        /\ before' = urls
        /\ navRun' = NoRun
        /\ snapshot' = urls
        /\ UNCHANGED <<clock, formVars, nTrace, touchVars>>

Next ==
    \/ AddUrl
    \/ UpdateUrl
    \/ DeleteUrl
    \/ SetActiveUrl
    \/ NavigateNext
    \/ NavigatePrevious
    \/ NavigateToIndex

Spec == Init /\ [][Next]_vars

----------------------------------------------------------------------------
(* The swipe gesture: QRCodeGenerator *)

\* Minimum swipe distance (in px)
minSwipeDistance == 50

\* clientX values of a touch: the left edge of the screen, and three points
\* that lie 50 and 51 px apart
Coords == {0, 10, 60, 61}

\* !touchStart, !touchEnd: null is falsy, and so is the number 0
falsy(t) == t = <<>> \/ t[1] = 0

\* What handleTouchEnd calls, from the state it reads
touchEndCalls(ts, te, u) ==
    IF falsy(ts) \/ falsy(te) \/ ~hasMultipleUrls(u)
    THEN <<>>
    ELSE LET distance == ts[1] - te[1]
             isLeftSwipe == distance > minSwipeDistance
             isRightSwipe == distance < -minSwipeDistance
         IN  IF isLeftSwipe THEN <<"navigateNext">>
             ELSE IF isRightSwipe THEN <<"navigatePrevious">>
             ELSE <<>>

\* The touch handlers are on the card that is rendered when activeUrl is not null
touchTarget == activeUrl(urls) # <<>>

\* Mutant of HandleTouchStart: touchEnd is not reset to null
HandleTouchStartKeepsEnd ==
    \E x \in Coords :
        /\ touchTarget
        /\ ~gesture.down
        /\ touchStart' = <<x>>
        /\ gesture' = [down |-> TRUE, start |-> x, end |-> x, moved |-> FALSE,
                       prior |-> called]
        /\ lastOp' = Op("handleTouchStart", Null, EmptyForm, 0)
        /\ before' = urls
        /\ navRun' = NoRun
        /\ snapshot' = urls
        /\ UNCHANGED <<storeVars, formVars, nTrace, touchEnd, called>>

HandleTouchStart ==
    \E x \in Coords :
        /\ touchTarget
        /\ ~gesture.down
        /\ touchEnd' = <<>>
        /\ touchStart' = <<x>>
        /\ gesture' = [down |-> TRUE, start |-> x, end |-> x, moved |-> FALSE,
                       prior |-> called]
        /\ lastOp' = Op("handleTouchStart", Null, EmptyForm, 0)
        /\ before' = urls
        /\ navRun' = NoRun
        /\ snapshot' = urls
        /\ UNCHANGED <<storeVars, formVars, nTrace, called>>

HandleTouchMove ==
    \E x \in Coords :
        /\ touchTarget
        /\ gesture.down
        /\ touchEnd' = <<x>>
        /\ gesture' = [gesture EXCEPT !.end = x, !.moved = TRUE]
        /\ lastOp' = Op("handleTouchMove", Null, EmptyForm, 0)
        /\ before' = urls
        /\ navRun' = NoRun
        /\ snapshot' = urls
        /\ UNCHANGED <<storeVars, formVars, nTrace, touchStart, called>>

HandleTouchEnd ==
    /\ touchTarget
    /\ gesture.down
    /\ gesture' = [gesture EXCEPT !.down = FALSE]
    /\ called' = touchEndCalls(touchStart, touchEnd, urls)
    /\ urls' = IF called' = <<"navigateNext">> THEN navigateNext(urls)
               ELSE IF called' = <<"navigatePrevious">> THEN navigatePrevious(urls)
               ELSE urls
    /\ lastOp' = Op("handleTouchEnd",
                    IF called' = <<"navigateNext">> THEN navigateNextTarget(urls)
                    ELSE IF called' = <<"navigatePrevious">>
                         THEN navigatePreviousTarget(urls)
                         ELSE Null,
                    EmptyForm, 0)
    /\ before' = urls
    /\ navRun' = NoRun
    /\ snapshot' = urls
    /\ UNCHANGED <<clock, formVars, nTrace, touchStart, touchEnd>>

NextTouch ==
    \/ AddUrl
    \/ NavigateToIndex
    \/ HandleTouchStart
    \/ HandleTouchMove
    \/ HandleTouchEnd

SpecTouch == Init /\ [][NextTouch]_vars

----------------------------------------------------------------------------
(* The management form: UrlManagement *)

\* isAdding || editingId: the form card is rendered
formOpen == isAdding \/ editingId # Null

\* Mutant of buttonsDisabled: Add URL, Edit and Delete stay enabled
buttonsNeverDisabled == FALSE

\* disabled={isAdding || editingId !== null} on Add URL, Edit and Delete
buttonsDisabled == isAdding \/ editingId # Null

\* !formData.url.trim() || !formData.title.trim()
invalidForm(data) == trim(data.url) = <<>> \/ trim(data.title) = <<>>

\* Mutant of handleSubmitData: the url is stored as typed
handleSubmitDataRaw(data) == data

\* { ...formData, url: normalizeUrl(formData.url) }
handleSubmitData(data) == [data EXCEPT !.url = normalizeUrl(data.url)]

\* Mutant of submitAccepted: only the url is validated
submitAcceptedUrlOnly(data) == trim(data.url) # <<>>

\* handleSubmit goes past its validation
submitAccepted(data) == ~invalidForm(data)

\* onClick={() => setIsAdding(true)}
ClickAdd ==
    /\ ~buttonsDisabled
    /\ isAdding' = TRUE
    /\ lastOp' = Op("clickAdd", Null, EmptyForm, 0)
    /\ before' = urls
    /\ navRun' = NoRun
    /\ snapshot' = urls
    /\ UNCHANGED <<storeVars, editingId, formData, nTrace, touchVars>>

\* onChange of the url input
ChangeUrl ==
    \E u \in UrlInputs :
        /\ formOpen
        /\ formData' = [formData EXCEPT !.url = u]
        /\ lastOp' = Op("changeUrl", Null, EmptyForm, 0)
        /\ before' = urls
        /\ navRun' = NoRun
        /\ snapshot' = urls
        /\ UNCHANGED <<storeVars, isAdding, editingId, nTrace, touchVars>>

\* onChange of the title input
ChangeTitle ==
    \E t \in TitleInputs :
        /\ formOpen
        /\ formData' = [formData EXCEPT !.title = t]
        /\ lastOp' = Op("changeTitle", Null, EmptyForm, 0)
        /\ before' = urls
        /\ navRun' = NoRun
        /\ snapshot' = urls
        /\ UNCHANGED <<storeVars, isAdding, editingId, nTrace, touchVars>>

\* handleSubmit: the validation fails, a toast and nothing else
SubmitRejected ==
    /\ formOpen
    /\ ~submitAccepted(formData)
    /\ lastOp' = Op("submitRejected", editingId, formData, 0)
    /\ before' = urls
    /\ navRun' = NoRun
    /\ snapshot' = urls
    /\ UNCHANGED <<storeVars, formVars, nTrace, touchVars>>

\* handleSubmit with editingId set: onUpdateUrl
SubmitUpdate ==
    /\ formOpen
    /\ submitAccepted(formData)
    /\ editingId # Null
    /\ urls' = updateUrl(urls, editingId, handleSubmitData(formData))
    /\ editingId' = Null
    /\ formData' = EmptyForm
    /\ lastOp' = Op("submitUpdate", editingId, formData, 0)
    /\ before' = urls
    /\ navRun' = NoRun
    /\ snapshot' = urls
    /\ UNCHANGED <<clock, isAdding, nTrace, touchVars>>

\* handleSubmit without editingId: onAddUrl
SubmitAdd ==
    /\ formOpen
    /\ submitAccepted(formData)
    /\ editingId = Null
    /\ clock < MaxAdds
    /\ clock' = clock + 1
    /\ urls' = addUrl(urls, handleSubmitData(formData), clock + 1)
    /\ isAdding' = FALSE
    /\ formData' = EmptyForm
    /\ lastOp' = Op("submitAdd", generateId(clock + 1), formData, 0)
    /\ before' = urls
    /\ navRun' = NoRun
    /\ snapshot' = urls
    /\ UNCHANGED <<editingId, nTrace, touchVars>>

HandleEdit ==
    \E i \in 1..Len(urls) :
        /\ ~buttonsDisabled
        /\ formData' = [url |-> urls[i].url, title |-> urls[i].title]
        /\ editingId' = urls[i].id
        /\ isAdding' = FALSE
        /\ lastOp' = Op("handleEdit", urls[i].id, EmptyForm, 0)
        /\ before' = urls
        /\ navRun' = NoRun
        /\ snapshot' = urls
        /\ UNCHANGED <<storeVars, nTrace, touchVars>>

HandleCancel ==
    /\ formOpen
    /\ formData' = EmptyForm
    /\ editingId' = Null
    /\ isAdding' = FALSE
    /\ lastOp' = Op("handleCancel", Null, EmptyForm, 0)
    /\ before' = urls
    /\ navRun' = NoRun
    /\ snapshot' = urls
    /\ UNCHANGED <<storeVars, nTrace, touchVars>>

HandleDelete ==
    \E i \in 1..Len(urls) :
        /\ ~buttonsDisabled
        /\ urls' = deleteUrl(urls, urls[i].id)
        /\ lastOp' = Op("handleDelete", urls[i].id, EmptyForm, 0)
        /\ before' = urls
        /\ navRun' = NoRun
        /\ snapshot' = deleteUrlPrev(urls, urls[i].id)
        /\ UNCHANGED <<clock, formVars, nTrace, touchVars>>

\* onClick={() => onSetActiveUrl(url.id)} on a card of the list
ClickSetActive ==
    \E i \in 1..Len(urls) :
        /\ urls' = setActiveUrl(urls, urls[i].id)
        /\ lastOp' = Op("clickSetActive", urls[i].id, EmptyForm, 0)
        /\ before' = urls
        /\ navRun' = NoRun
        /\ snapshot' = urls
        /\ UNCHANGED <<clock, formVars, nTrace, touchVars>>

NextUI ==
    \/ ClickAdd
    \/ ChangeUrl
    \/ ChangeTitle
    \/ SubmitRejected
    \/ SubmitUpdate
    \/ SubmitAdd
    \/ HandleEdit
    \/ HandleCancel
    \/ HandleDelete
    \/ ClickSetActive
    \/ NavigateNext
    \/ NavigatePrevious
    \/ NavigateToIndex

SpecUI == Init /\ [][NextUI]_vars

----------------------------------------------------------------------------
(* normalizeUrl on its own *)

InitNorm ==
    /\ urls = <<>>
    /\ clock = 0
    /\ isAdding = FALSE
    /\ editingId = Null
    /\ formData = EmptyForm
    /\ lastOp = NoOp
    /\ before = <<>>
    /\ snapshot = <<>>
    /\ nTrace \in {<<u>> : u \in NormInputs}
    /\ touchStart = <<>>
    /\ touchEnd = <<>>
    /\ gesture = NoGesture
    /\ called = <<>>
    /\ navRun = NoRun

Normalize ==
    /\ Len(nTrace) >= 1
    /\ Len(nTrace) <= MaxNormalize
    /\ nTrace' = Append(nTrace, normalizeUrl(nTrace[Len(nTrace)]))
    /\ UNCHANGED <<storeVars, formVars, lastOp, before, snapshot, touchVars, navRun>>

NextNorm == Normalize

SpecNorm == InitNorm /\ [][NextNorm]_vars

----------------------------------------------------------------------------
(* Properties *)

\* The indices (1-based) of the records of u whose isActive is true
ActiveSet(u) == {i \in 1..Len(u) : u[i].isActive}

\* The id is the id of a record of u
Present(u, id) == \E i \in 1..Len(u) : u[i].id = id

\* C1: after every add, update, delete and setActive, starting from the empty
\* collection, at most one record of the collection has isActive = true
C1_AtMostOneActive == Cardinality(ActiveSet(urls)) <= 1

\* C1 witness: a setActive on a collection of two or more records whose active
\* record was another one has left exactly one record active
C1_Witness ==
    /\ lastOp.op = "setActiveUrl"
    /\ Len(urls) >= 2
    /\ Cardinality(ActiveSet(before)) = 1
    /\ ActiveSet(before) # ActiveSet(urls)
    /\ Cardinality(ActiveSet(urls)) = 1

\* C2: after every add, update, delete and setActive, a non-empty collection has
\* exactly one active record, so activeUrl is never null on a non-empty collection
C2_ExactlyOneActive ==
    Len(urls) > 0 => Cardinality(ActiveSet(urls)) = 1 /\ activeUrl(urls) # <<>>

\* C3: the record addUrl appends is active if and only if the collection was
\* empty immediately before
C3_FirstAutoActivates ==
    lastOp.op \in {"addUrl", "submitAdd"} =>
        /\ Len(urls) = Len(before) + 1
        /\ urls[Len(urls)].id = lastOp.id
        /\ urls[Len(urls)].isActive = (Len(before) = 0)

\* C3 witness: a record was added to a non-empty collection and is not active
C3_Witness ==
    /\ lastOp.op = "addUrl"
    /\ Len(before) >= 1
    /\ ~urls[Len(urls)].isActive

\* C4: deleting the active record of a collection of two or more records makes
\* the first of the remaining records the active one, and only it; deleting the
\* only record leaves the empty collection
C4_DeleteReassignsToFirst ==
    lastOp.op \in {"deleteUrl", "handleDelete"} =>
        /\ (/\ Len(before) >= 2
            /\ Present(before, lastOp.id)
            /\ before[findIndex(before, lastOp.id) + 1].isActive)
           => /\ Len(urls) = Len(before) - 1
              /\ ActiveSet(urls) = {1}
              /\ urls[1].id =
                    IF before[1].id = lastOp.id THEN before[2].id ELSE before[1].id
        /\ (Len(before) = 1 /\ Present(before, lastOp.id))
           => urls = <<>> /\ activeUrl(urls) = <<>>

\* C4 witness: the active record deleted was the third of three, and the first
\* record, which is not its neighbour, is now the active one
C4_Witness ==
    /\ lastOp.op = "deleteUrl"
    /\ Len(before) = 3
    /\ before[3].id = lastOp.id
    /\ before[3].isActive
    /\ Len(urls) = 2
    /\ urls[1].isActive
    /\ ~urls[2].isActive

\* C5: setActive with an id that is absent from the collection leaves the
\* collection unchanged
C5_SetActiveAbsentUnchanged ==
    (lastOp.op = "setActiveUrl" /\ ~Present(before, lastOp.id)) => urls = before

\* C6: setActive with an id of the collection makes that record active and every
\* other record inactive, and changes nothing else
C6_SetActivePresent ==
    (lastOp.op \in {"setActiveUrl", "clickSetActive"} /\ Present(before, lastOp.id)) =>
        /\ Len(urls) = Len(before)
        /\ \A i \in 1..Len(before) :
            /\ urls[i].isActive = (before[i].id = lastOp.id)
            /\ urls[i].id = before[i].id
            /\ urls[i].url = before[i].url
            /\ urls[i].title = before[i].title
            /\ urls[i].createdAt = before[i].createdAt

\* C6 witness: setActive on the second record while the first was active
C6_Witness ==
    /\ lastOp.op = "setActiveUrl"
    /\ Len(before) >= 2
    /\ before[1].isActive
    /\ before[2].id = lastOp.id
    /\ urls[2].isActive
    /\ ~urls[1].isActive

\* C7: a form submitted with a url or a title that is empty after trimming is
\* rejected, for an add and for an update, and the collection is unchanged
C7_BlankSubmitRejected ==
    (/\ lastOp.op \in {"submitRejected", "submitAdd", "submitUpdate"}
     /\ (trim(lastOp.data.url) = <<>> \/ trim(lastOp.data.title) = <<>>))
    => lastOp.op = "submitRejected" /\ urls = before

\* C7 witness: an update with a url and a blank title was rejected
C7_Witness ==
    /\ lastOp.op = "submitRejected"
    /\ lastOp.id # Null
    /\ Present(urls, lastOp.id)
    /\ trim(lastOp.data.url) # <<>>
    /\ trim(lastOp.data.title) = <<>>
    /\ urls = before

\* C8: update with an id of the collection changes that record's url and title
\* and nothing else: not its id, createdAt, isActive or position, nor another record
C8_UpdateFrame ==
    (lastOp.op = "updateUrl" /\ Present(before, lastOp.id)) =>
        /\ Len(urls) = Len(before)
        /\ \A i \in 1..Len(before) :
            IF before[i].id = lastOp.id
            THEN /\ urls[i].id = before[i].id
                 /\ urls[i].createdAt = before[i].createdAt
                 /\ urls[i].isActive = before[i].isActive
                 /\ urls[i].url = lastOp.data.url
                 /\ urls[i].title = lastOp.data.title
            ELSE urls[i] = before[i]

\* C8 witness: the active first record of several was updated and its url and
\* title both changed
C8_Witness ==
    /\ lastOp.op = "updateUrl"
    /\ Len(before) >= 2
    /\ before[1].id = lastOp.id
    /\ before[1].isActive
    /\ urls[1].url # before[1].url
    /\ urls[1].title # before[1].title

HasScheme(s) == startsWith(s, HTTP) \/ startsWith(s, HTTPS)

\* C9 as stated: normalization returns an input that has an http:// or https://
\* prefix as it is, prepends https:// to every other input, and is idempotent
C9_NormalizeAsStated ==
    /\ Len(nTrace) >= 2 =>
          nTrace[2] = IF HasScheme(nTrace[1]) THEN nTrace[1] ELSE HTTPS \o nTrace[1]
    /\ Len(nTrace) >= 3 => nTrace[3] = nTrace[2]

\* C9 amended: normalization trims the input first; a trimmed input that has an
\* http:// or https:// prefix is returned as it is, any other gets https://
\* prepended; the result has a scheme and no surrounding whitespace, and
\* normalizing it again returns it unchanged
C9_NormalizeTrimmed ==
    /\ Len(nTrace) >= 2 =>
          /\ nTrace[2] = IF HasScheme(trim(nTrace[1]))
                         THEN trim(nTrace[1])
                         ELSE HTTPS \o trim(nTrace[1])
          /\ HasScheme(nTrace[2])
          /\ (HasScheme(nTrace[1]) /\ trim(nTrace[1]) = nTrace[1]) => nTrace[2] = nTrace[1]
    /\ Len(nTrace) >= 3 => nTrace[3] = nTrace[2]

\* C9 witness: an input with a scheme and trailing whitespace was normalized
\* twice; the first result is the trimmed input, the second is the same
C9_Witness ==
    /\ Len(nTrace) = 3
    /\ HasScheme(nTrace[1])
    /\ nTrace[2] # nTrace[1]
    /\ nTrace[2] = trim(nTrace[1])
    /\ nTrace[3] = nTrace[2]

\* C10: with two or more records and the active record at index i, next() makes
\* the record at index (i + 1) mod length the active one, and only it
C10_NextWraps ==
    (/\ lastOp.op = "navigateNext"
     /\ Len(before) >= 2
     /\ ActiveSet(before) # {})
    => \E i \in ActiveSet(before) :
          /\ ActiveSet(before) = {i}
          /\ ActiveSet(urls) = {IF i = Len(before) THEN 1 ELSE i + 1}
          /\ Len(urls) = Len(before)
          /\ \A k \in 1..Len(before) : urls[k].id = before[k].id

\* C10 witness: next() on the last of three records has made the first active
C10_Witness ==
    /\ lastOp.op = "navigateNext"
    /\ Len(before) = 3
    /\ before[3].isActive
    /\ urls[1].isActive
    /\ ~urls[3].isActive

\* C11: with two or more records and the active record at index i, previous()
\* makes the record at index length - 1 the active one if i = 0 and the record
\* at index i - 1 otherwise, and only it
C11_PreviousWraps ==
    (/\ lastOp.op = "navigatePrevious"
     /\ Len(before) >= 2
     /\ ActiveSet(before) # {})
    => \E i \in ActiveSet(before) :
          /\ ActiveSet(before) = {i}
          /\ ActiveSet(urls) = {IF i = 1 THEN Len(before) ELSE i - 1}
          /\ Len(urls) = Len(before)
          /\ \A k \in 1..Len(before) : urls[k].id = before[k].id

\* C11 witness: previous() on the first of three records has made the last active
C11_Witness ==
    /\ lastOp.op = "navigatePrevious"
    /\ Len(before) = 3
    /\ before[1].isActive
    /\ urls[3].isActive
    /\ ~urls[1].isActive

\* C12: with fewer than two records, or with no active record, next() and
\* previous() hand no id to setActive and leave the collection unchanged
C12_NavigateNoOp ==
    (/\ lastOp.op \in {"navigateNext", "navigatePrevious"}
     /\ (Len(before) < 2 \/ ActiveSet(before) = {}))
    => lastOp.id = Null /\ urls = before

\* C12 witness: previous() ran on a collection of one active record, called
\* nothing and left it as it was
C12_Witness ==
    /\ lastOp.op = "navigatePrevious"
    /\ Len(before) = 1
    /\ before[1].isActive
    /\ lastOp.id = Null
    /\ urls = before

\* C13: goTo(index) makes the record at that index the active one, and only it,
\* when 0 <= index < length; for any other index, -1 and length included, it
\* calls nothing and the collection and its active record are unchanged
C13_GoTo ==
    lastOp.op = "navigateToIndex" =>
        IF lastOp.index >= 0 /\ lastOp.index < Len(before)
        THEN /\ ActiveSet(urls) = {lastOp.index + 1}
             /\ lastOp.id = before[lastOp.index + 1].id
             /\ Len(urls) = Len(before)
             /\ \A k \in 1..Len(before) : urls[k].id = before[k].id
        ELSE lastOp.id = Null /\ urls = before

\* C13 witness: goTo(length) on two or more records with an active record has
\* left the collection as it was
C13_Witness ==
    /\ lastOp.op = "navigateToIndex"
    /\ Len(before) >= 2
    /\ lastOp.index = Len(before)
    /\ ActiveSet(before) # {}
    /\ urls = before

\* C14: with two or more records, a gesture whose displacement from its start to
\* its end exceeds the minimum distance calls exactly next() for a leftward and
\* previous() for a rightward swipe, whatever the coordinates; a gesture whose
\* displacement does not exceed it calls neither
C14_SwipeFires ==
    (lastOp.op = "handleTouchEnd" /\ Len(before) >= 2) =>
        LET displacement == gesture.start - gesture.end
        IN  called = IF displacement > minSwipeDistance THEN <<"navigateNext">>
                     ELSE IF displacement < -minSwipeDistance THEN <<"navigatePrevious">>
                     ELSE <<>>

C16_AddFrame ==
    lastOp.op \in {"addUrl", "submitAdd"} =>
        /\ Len(urls) = Len(before) + 1
        /\ urls[Len(urls)].id = lastOp.id
        /\ \A i \in 1..Len(before) : urls[i] = before[i]

\* C16 witness: a record was added behind two records, the second of them active
C16_Witness ==
    /\ lastOp.op = "addUrl"
    /\ Len(before) = 2
    /\ before[2].isActive
    /\ Len(urls) = 3
    /\ urls[2].isActive
    /\ urls[3].id = lastOp.id

\* C17: setActive is idempotent: a setActive(id) that directly follows a
\* setActive(id) with the same id, an id of the collection, changes nothing
C17_SetActiveIdempotent ==
    [][(/\ lastOp.op = "setActiveUrl"
        /\ Present(urls, lastOp.id)
        /\ lastOp'.op = "setActiveUrl"
        /\ lastOp'.id = lastOp.id)
       => urls' = urls]_vars

\* C17 witness: setActive(id) ran on a collection of several records in which
\* that record, not the first, was already the active one, as a setActive(id)
\* leaves it, and the collection is the same
C17_Witness ==
    /\ lastOp.op = "setActiveUrl"
    /\ Len(before) >= 2
    /\ Present(before, lastOp.id)
    /\ before[findIndex(before, lastOp.id) + 1].isActive
    /\ ~before[1].isActive
    /\ urls = before

\* C18: no operation modifies the collection it started from: read after the
\* operation, the earlier collection still has the records and the isActive
\* flags it had, and never two active records
C18_PriorSnapshotUntouched ==
    snapshot = before /\ Cardinality(ActiveSet(snapshot)) <= 1

\* C19: update and delete with an id that is absent from the collection leave
\* the collection as it was: the same records in the same order, the same
\* active record
C19_AbsentIdUnchanged ==
    (lastOp.op \in {"updateUrl", "deleteUrl"} /\ ~Present(before, lastOp.id))
    => urls = before /\ activeUrl(urls) = activeUrl(before)

\* C19 witness: delete ran with an absent id on several records, the active one
\* not the first, and the collection is the same
C19_Witness ==
    /\ lastOp.op = "deleteUrl"
    /\ ~Present(before, lastOp.id)
    /\ Len(before) >= 2
    /\ ~before[1].isActive
    /\ ActiveSet(before) # {}
    /\ urls = before

\* C20: after any sequence of adds and updates submitted through the form, every
\* record has a url that begins with http:// or https:// and a title that is
\* not empty after trimming
C20_StoredUrlsNormalized ==
    \A i \in 1..Len(urls) :
        /\ startsWith(urls[i].url, HTTP) \/ startsWith(urls[i].url, HTTPS)
        /\ trim(urls[i].title) # <<>>

\* C20 witness: an update was submitted with a url typed without a scheme, and
\* the record holds it with https:// in front
C20_Witness ==
    /\ lastOp.op = "submitUpdate"
    /\ ~HasScheme(trim(lastOp.data.url))
    /\ Present(urls, lastOp.id)
    /\ urls[findIndex(urls, lastOp.id) + 1].url = HTTPS \o trim(lastOp.data.url)
    /\ Len(urls) >= 2

\* C21: the coordinates of a gesture do not leak into the next one: what
\* handleTouchEnd calls is decided by the start and the end of the gesture that
\* ends, and a touch that goes down and up without a move calls neither next()
\* nor previous() and leaves the collection as it was, also right after a swipe
C21_NoGestureLeak ==
    lastOp.op = "handleTouchEnd" =>
        IF gesture.moved
        THEN called = touchEndCalls(<<gesture.start>>, <<gesture.end>>, before)
        ELSE called = <<>> /\ urls = before

\* C21 witness: a touch without a move has ended right after a swipe that called
\* next(), at the place where that swipe started, and has called nothing
C21_Witness ==
    /\ lastOp.op = "handleTouchEnd"
    /\ ~gesture.moved
    /\ gesture.prior = <<"navigateNext">>
    /\ touchStart = <<61>>
    /\ Len(urls) >= 2
    /\ called = <<>>
    /\ urls = before

\* C22: deleting a record that is not active removes that record and no other,
\* keeps the remaining records, with all their fields, in their order, and
\* leaves the active record the active one
C22_DeleteInactiveFrame ==
    (/\ lastOp.op \in {"deleteUrl", "handleDelete"}
     /\ Present(before, lastOp.id)
     /\ ~before[findIndex(before, lastOp.id) + 1].isActive)
    => LET k == findIndex(before, lastOp.id) + 1
       IN  /\ Len(urls) = Len(before) - 1
           /\ \A i \in 1..Len(urls) : urls[i] = before[IF i < k THEN i ELSE i + 1]
           /\ activeUrl(urls) = activeUrl(before)

\* C22 witness: the first of three records, not active, was deleted while the
\* third was active, and the two others remain, the same one active
C22_Witness ==
    /\ lastOp.op = "deleteUrl"
    /\ Len(before) = 3
    /\ before[1].id = lastOp.id
    /\ before[3].isActive
    /\ urls = <<before[2], before[3]>>

\* A run of consecutive next() calls, or of consecutive previous() calls, on n >= 2
\* records activates a different record at every call; after n calls every
\* record has been activated once and the record active before the run is
\* active again, and before that it has not come round yet
C23_RunVisitsEachOnce ==
    navRun.dir # "none" =>
        LET ids == navRun.ids
            n   == Len(urls)
        IN  /\ n >= 2
            /\ Len(ids) >= 1 /\ Len(ids) <= n
            /\ \A i \in 1..Len(ids) : \A j \in 1..Len(ids) : i # j => ids[i] # ids[j]
            /\ ids[Len(ids)] = activeId(urls)
            /\ Len(ids) < n => \A i \in 1..Len(ids) : ids[i] # navRun.from
            /\ Len(ids) = n =>
                   /\ {ids[i] : i \in 1..n} = {urls[i].id : i \in 1..n}
                   /\ ids[n] = navRun.from

\* A previous() right after a next() that navigated gives back the collection
\* the next() started from
C23_PreviousUndoesNext ==
    (/\ lastOp.op = "navigateNext"
     /\ lastOp.id # Null
     /\ lastOp'.op = "navigatePrevious")
    => /\ urls' = before
       /\ activeId(urls') = activeId(before)

\* C23: with n >= 2 records and nothing else in between, n consecutive next()
\* calls activate every record exactly once and end on the record that was
\* active at the start, the same holds for previous(), and next() followed by
\* previous() restores the record that was active
C23_NavigationCycles ==
    /\ []C23_RunVisitsEachOnce
    /\ [][C23_PreviousUndoesNext]_vars

\* Three next() calls on three records have gone once around
C23_Witness ==
    /\ lastOp.op = "navigateNext"
    /\ navRun.dir = "next"
    /\ Len(urls) = 3
    /\ Len(navRun.ids) = 3
    /\ navRun.from # Null
    /\ activeId(urls) = navRun.from

\* C24: through the form's events the add form and the edit form are never open
\* together, the record being edited is always in the collection, and a
\* submitted update targets a record that is in the collection
C24_FormStateMachine ==
    /\ ~(isAdding /\ editingId # Null)
    /\ editingId # Null => Present(urls, editingId)
    /\ lastOp.op = "submitUpdate" =>
           /\ lastOp.id # Null
           /\ Present(before, lastOp.id)
           /\ Present(urls, lastOp.id)

\* An edit form is open on a record of the collection while another record is
\* made active, and the add form is closed
C24_Witness ==
    /\ editingId # Null
    /\ ~isAdding
    /\ Len(urls) >= 2
    /\ lastOp.op = "clickSetActive"
    /\ Present(urls, editingId)

====
